---- MODULE Spec2Model ----
(***************************************************************************)
(* Shortcuty CLI: the validators, the credential resolver, the update      *)
(* cache, the API request layer and the runs of the command line, as a     *)
(* state machine.                                                          *)
(*                                                                         *)
(* Text is a TLA+ string; a character is a string of length 1.  File       *)
(* contents are sequences of byte values.  A Python value is a record      *)
(* [t, s, n]: its type tag, its text payload and its number payload.       *)
(* An outcome is a record [kind, exc, why, val]: kind "return" with the    *)
(* returned value, or kind "raise" with the exception class and which      *)
(* raise statement it came from.                                           *)
(***************************************************************************)
EXTENDS Integers, Sequences, FiniteSets, TLC

VARIABLES
    call,        \* the last operation: [op, arg, out, sent]
    env,         \* the value of SHORTCUTY_API_KEY (a Python value, none = unset)
    configFile,  \* ~/.shortcuty/config.json
    cacheFile,   \* ~/.shortcuty/last_update_check.json
    now,         \* the wall clock, in hours
    version,     \* shortcuty_cli.__version__
    run          \* one run of the command line: [pc, argv, api_key, events, output, exit, exc]

vars == <<call, env, configFile, cacheFile, now, version, run>>

------------------------------------------------------------------------------
(* Python values and outcomes *)

PyNone == [t |-> "none", s |-> "", n |-> 0]
PyStr(x) == [t |-> "str", s |-> x, n |-> 0]
PyInt(k) == [t |-> "int", s |-> "", n |-> k]
PyBool(b) == [t |-> "bool", s |-> "", n |-> IF b THEN 1 ELSE 0]
PyList(k) == [t |-> "list", s |-> "", n |-> k]
PyDict(x) == [t |-> "dict", s |-> x, n |-> 0]

\* Python truthiness: None, "", 0, False and [] are falsy.
Truthy(v) ==
    CASE v.t = "none" -> FALSE
      [] v.t = "str"  -> v.s # ""
      [] v.t = "int"  -> v.n # 0
      [] v.t = "bool" -> v.n # 0
      [] v.t = "list" -> v.n # 0
      [] OTHER        -> TRUE

Return(v) == [kind |-> "return", exc |-> "", why |-> "", val |-> v]
Raise(e, w) == [kind |-> "raise", exc |-> e, why |-> w, val |-> PyNone]
Ok == Return(PyNone)

\* A call that has been made and has not run yet.
Pending == [kind |-> "pending", exc |-> "", why |-> "", val |-> PyNone]

Request(o, a) == [op |-> o, arg |-> a, out |-> Pending, sent |-> <<>>]

IsPending(o) == call.op = o /\ call.out = Pending

\* No operation ran in the last step: the program is not running, and the
\* clock, the environment and the user's files may change.
Idle == Request("none", <<>>)

\* The call of operation o has run.
Done(o) == call.op = o /\ call.out # Pending

\* The command line is not running.
NoRun ==
    [pc |-> "idle", argv |-> <<>>, api_key |-> PyNone, events |-> <<>>,
     output |-> <<>>, exit |-> 0, exc |-> Ok]

------------------------------------------------------------------------------
(* Files holding one JSON document: config.json and last_update_check.json. *)
(* state: "missing", "unopenable" (open raises IOError) or "ok";            *)
(* body: "undecodable" (not text in the locale's encoding), "notjson" or    *)
(* "json"; top: the JSON document's top-level value; has/val: whether the   *)
(* top-level object holds the file's one key, and the value under it.       *)

JsonFile(st, b, tp, h, v) == [state |-> st, body |-> b, top |-> tp, has |-> h, val |-> v]

Missing == JsonFile("missing", "", PyNone, FALSE, PyNone)
Unopenable == JsonFile("unopenable", "", PyNone, FALSE, PyNone)
Undecodable == JsonFile("ok", "undecodable", PyNone, FALSE, PyNone)
NotJson == JsonFile("ok", "notjson", PyNone, FALSE, PyNone)
JsonTop(v) == JsonFile("ok", "json", v, FALSE, PyNone)
JsonObject(h, v) == JsonFile("ok", "json", PyDict(""), h, IF h THEN v ELSE PyNone)

\* JSON documents whose top level is not an object.
NonObjects == {PyNone, PyInt(7), PyStr("x"), PyList(0), PyList(1), PyBool(TRUE)}

------------------------------------------------------------------------------
(* Text helpers *)

Ch(s, i) == SubSeq(s, i, i)

Take(s, k) == SubSeq(s, 1, IF k < Len(s) THEN k ELSE Len(s))

Drop(s, k) == IF k >= Len(s) THEN SubSeq(s, 1, 0) ELSE SubSeq(s, k + 1, Len(s))

StartsWith(s, p) == Len(s) >= Len(p) /\ SubSeq(s, 1, Len(p)) = p

\* str.rfind, 1-based: the last index of character c in s, 0 when there is none.
RFind(s, c) ==
    LET hits == {i \in 1..Len(s) : Ch(s, i) = c}
    IN  IF hits = {} THEN 0 ELSE CHOOSE i \in hits : \A j \in hits : j <= i

\* str.find, 1-based: the first index of character c in s, 0 when there is none.
Find(s, c) ==
    LET hits == {i \in 1..Len(s) : Ch(s, i) = c}
    IN  IF hits = {} THEN 0 ELSE CHOOSE i \in hits : \A j \in hits : i <= j

UpperLetters == "ABCDEFGHIJKLMNOPQRSTUVWXYZ"
LowerLetters == "abcdefghijklmnopqrstuvwxyz"
Digits == "0123456789"

IsIn(c, alphabet) == Find(alphabet, c) # 0

LowerCh(c) ==
    LET k == Find(UpperLetters, c) IN IF k = 0 THEN c ELSE Ch(LowerLetters, k)

RECURSIVE Lower(_)
Lower(s) == IF s = "" THEN "" ELSE LowerCh(Ch(s, 1)) \o Lower(Drop(s, 1))

------------------------------------------------------------------------------
(* validate_image_file *)

PNG_SIGNATURE == <<137, 80, 78, 71, 13, 10, 26, 10>>
JPEG_SIGNATURE == <<255, 216, 255>>

\* os.path.splitext(p)[1]: the text from the last dot of the last path
\* component, unless that component has only dots before it.
splitext(p) ==
    LET sepIndex == RFind(p, "/")
        dotIndex == RFind(p, ".")
    IN  IF dotIndex > sepIndex
           /\ \E k \in (sepIndex + 1)..(dotIndex - 1) : Ch(p, k) # "."
        THEN SubSeq(p, dotIndex, Len(p))
        ELSE ""

\* open(file_path, "rb") succeeds only on a readable regular file.
CanOpen(f) == f.state = "ok"

\* f.read(8)
ReadHeader(f) == Take(f.bytes, 8)

validate_image_file_nocross(p, f) ==
    LET ext == Lower(splitext(p))
        header == ReadHeader(f)
        is_png == Take(header, 8) = PNG_SIGNATURE
        is_jpeg == Take(header, 3) = JPEG_SIGNATURE
    IN  IF ext \notin {".png", ".jpg", ".jpeg"}
        THEN Raise("ShortcutyAPIError", "extension")
        ELSE IF ~CanOpen(f) THEN Raise("ShortcutyAPIError", "io")
        ELSE IF Len(header) < 3 THEN Raise("ShortcutyAPIError", "too_small")
        ELSE IF ~(is_png \/ is_jpeg) THEN Raise("ShortcutyAPIError", "mismatch")
        ELSE Ok

validate_image_file(p, f) ==
    LET ext == Lower(splitext(p))
        header == ReadHeader(f)
        is_png == Take(header, 8) = PNG_SIGNATURE
        is_jpeg == Take(header, 3) = JPEG_SIGNATURE
    IN  IF ext \notin {".png", ".jpg", ".jpeg"}
        THEN Raise("ShortcutyAPIError", "extension")
        ELSE IF ~CanOpen(f) THEN Raise("ShortcutyAPIError", "io")
        ELSE IF Len(header) < 3 THEN Raise("ShortcutyAPIError", "too_small")
        ELSE IF ~(is_png \/ is_jpeg) THEN Raise("ShortcutyAPIError", "mismatch")
        ELSE IF ext = ".png" /\ ~is_png THEN Raise("ShortcutyAPIError", "mismatch")
        ELSE IF ext \in {".jpg", ".jpeg"} /\ ~is_jpeg
             THEN Raise("ShortcutyAPIError", "mismatch")
        ELSE Ok

\* The paths and files the validator is applied to.
MaxPad == 5

Pad(k) == [i \in 1..k |-> 0]

Corrupt(sig, i) == [sig EXCEPT ![i] = 0]

ImageBytes ==
    LET heads == {SubSeq(PNG_SIGNATURE, 1, k) : k \in 0..Len(PNG_SIGNATURE)}
                 \cup {SubSeq(JPEG_SIGNATURE, 1, k) : k \in 0..Len(JPEG_SIGNATURE)}
                 \cup {Corrupt(PNG_SIGNATURE, i) : i \in 1..Len(PNG_SIGNATURE)}
                 \cup {Corrupt(JPEG_SIGNATURE, i) : i \in 1..Len(JPEG_SIGNATURE)}
    IN  {h \o Pad(k) : h \in heads, k \in 0..MaxPad}

ImageFiles ==
    {[state |-> "ok", bytes |-> b] : b \in ImageBytes}
    \cup {[state |-> st, bytes |-> <<>>] : st \in {"missing", "denied", "directory"}}

ImageStems == {"", "a", "d/", "d.x/a", "a.b", ".", "..", "d/."}

ImageExts ==
    {".png", ".PNG", ".pNg", ".jpg", ".JPG", ".jpeg", ".JPEG", ".Jpeg", ".gif", "",
     ".pn", ".jpe", "png", ".png.bak", ".jpg.png", ".png.jpg", ".png/x"}

ImagePaths == {st \o e : st \in ImageStems, e \in ImageExts}

ImageCalls ==
    {Request("validate_image_file", [path |-> p, file |-> f]) :
        p \in ImagePaths, f \in ImageFiles}

ValidateImage ==
    /\ IsPending("validate_image_file")
    /\ call' = [call EXCEPT !.out = validate_image_file(call.arg.path, call.arg.file)]
    /\ UNCHANGED <<env, configFile, cacheFile, now, version, run>>

------------------------------------------------------------------------------
(* validate_uuid *)

\* str.replace(old, ""): every non-overlapping occurrence of old removed, left to right.
RECURSIVE Remove(_, _)
Remove(s, old) ==
    IF s = "" THEN ""
    ELSE IF StartsWith(s, old) THEN Remove(Drop(s, Len(old)), old)
    ELSE Ch(s, 1) \o Remove(Drop(s, 1), old)

\* str.lstrip(chars), str.rstrip(chars), str.strip(chars)
RECURSIVE LStrip(_, _)
LStrip(s, chars) ==
    IF s # "" /\ IsIn(Ch(s, 1), chars) THEN LStrip(Drop(s, 1), chars) ELSE s

RECURSIVE RStrip(_, _)
RStrip(s, chars) ==
    IF s # "" /\ IsIn(Ch(s, Len(s)), chars) THEN RStrip(Take(s, Len(s) - 1), chars) ELSE s

Strip(s, chars) == RStrip(LStrip(s, chars), chars)

Whitespace == " \n\t\r"
HexDigits == "0123456789abcdefABCDEF"

\* int(s, 16) parses: surrounding whitespace, an optional sign, an optional 0x
\* prefix, then hexadecimal digits with single underscores between them (one
\* may follow the prefix).
IntBase16Parses(s) ==
    LET a == Strip(s, Whitespace)
        b == IF a # "" /\ IsIn(Ch(a, 1), "+-") THEN Drop(a, 1) ELSE a
        prefixed == Len(b) >= 2 /\ Lower(Take(b, 2)) = "0x"
        c == IF ~prefixed THEN b
             ELSE IF Len(b) >= 3 /\ Ch(b, 3) = "_" THEN Drop(b, 3) ELSE Drop(b, 2)
    IN  /\ c # ""
        /\ \A i \in 1..Len(c) : IsIn(Ch(c, i), HexDigits) \/ Ch(c, i) = "_"
        /\ Ch(c, 1) # "_"
        /\ Ch(c, Len(c)) # "_"
        /\ \A i \in 1..(Len(c) - 1) : ~(Ch(c, i) = "_" /\ Ch(c, i + 1) = "_")

\* uuid.UUID(hex) returns (does not raise ValueError).
UUIDParses(hex) ==
    LET h1 == Remove(Remove(hex, "urn:"), "uuid:")
        h2 == Remove(Strip(h1, "{}"), "-")
    IN  Len(h2) = 32 /\ IntBase16Parses(h2)

validate_uuid(uuid) ==
    IF UUIDParses(uuid) THEN Ok ELSE Raise("ShortcutyAPIError", "uuid")

BaseUUID == "550e8400-e29b-41d4-a716-446655440000"

Subst(s, i, c) == Take(s, i - 1) \o c \o Drop(s, i)
Insert(s, i, c) == Take(s, i) \o c \o Drop(s, i)
Delete(s, i) == Take(s, i - 1) \o Drop(s, i)

UuidEditChars == {"g", "-", "A", " ", "_", "x", "+", "{", "0"}

UuidInputs ==
    {BaseUUID, "550E8400-E29B-41D4-A716-446655440000", "", "not-a-uuid"}
    \cup {Subst(BaseUUID, i, c) : i \in 1..Len(BaseUUID), c \in UuidEditChars}
    \cup {Insert(BaseUUID, i, c) : i \in 0..Len(BaseUUID), c \in UuidEditChars}
    \cup {Delete(BaseUUID, i) : i \in 1..Len(BaseUUID)}
    \cup {pre \o body \o post :
            pre \in {"", "{", "urn:uuid:", "urn:", "uuid:", " ", "0x", "{{"},
            body \in {BaseUUID, Remove(BaseUUID, "-"), Drop(BaseUUID, 2)},
            post \in {"", "}", " ", "\n", "-"}}

UuidCalls == {Request("validate_uuid", [uuid |-> u]) : u \in UuidInputs}

ValidateUuid ==
    /\ IsPending("validate_uuid")
    /\ call' = [call EXCEPT !.out = validate_uuid(call.arg.uuid)]
    /\ UNCHANGED <<env, configFile, cacheFile, now, version, run>>

------------------------------------------------------------------------------
(* validate_icloud_url *)

\* Matching a literal at position pos (1-based): the position after it, or 0.
MatchLit(s, pos, lit) ==
    IF pos # 0 /\ pos + Len(lit) - 1 <= Len(s) /\ SubSeq(s, pos, pos + Len(lit) - 1) = lit
    THEN pos + Len(lit)
    ELSE 0

\* [a-zA-Z0-9]+ at position pos: at least one such character is there.
MatchAlnumPlus(s, pos) ==
    /\ pos # 0
    /\ pos <= Len(s)
    /\ IsIn(Ch(s, pos), LowerLetters \o UpperLetters \o Digits)

\* re.match(r'^https://(www\.)?icloud\.com/shortcuts/[a-zA-Z0-9]+', url)
UrlPatternMatches(url) ==
    LET scheme == MatchLit(url, 1, "https://")
        rest(pos) == MatchAlnumPlus(url, MatchLit(url, pos, "icloud.com/shortcuts/"))
    IN  rest(MatchLit(url, scheme, "www.")) \/ rest(scheme)

\* The pattern without its final [a-zA-Z0-9]+.
UrlPatternMatchesNoId(url) ==
    LET scheme == MatchLit(url, 1, "https://")
        rest(pos) == MatchLit(url, pos, "icloud.com/shortcuts/") # 0
    IN  rest(MatchLit(url, scheme, "www.")) \/ rest(scheme)

validate_icloud_url_noid(url) ==
    IF UrlPatternMatchesNoId(url) THEN Ok ELSE Raise("ShortcutyAPIError", "url")

validate_icloud_url(url) ==
    IF UrlPatternMatches(url) THEN Ok ELSE Raise("ShortcutyAPIError", "url")

MaxTail == 2

UrlHeads ==
    {"https://icloud.com/shortcuts/", "https://www.icloud.com/shortcuts/",
     "http://icloud.com/shortcuts/", "https://wwwxicloud.com/shortcuts/",
     "https://icloudxcom/shortcuts/", "https://www.www.icloud.com/shortcuts/",
     " https://icloud.com/shortcuts/", "HTTPS://ICLOUD.COM/SHORTCUTS/",
     "https://icloud.com/shortcuts", "https://icloud.com/shortcut/",
     "https://www.icloud.com/", "https://wwwicloud.com/shortcuts/",
     "https://evil.example/?https://icloud.com/shortcuts/", ""}

UrlTailChars == {"a", "Z", "9", "?", "/", "-", " ", "\n", "_"}

RECURSIVE Texts(_, _)
Texts(chars, k) ==
    IF k = 0 THEN {""}
    ELSE LET shorter == Texts(chars, k - 1)
         IN  shorter \cup {t \o c : t \in shorter, c \in chars}

UrlInputs == {h \o t : h \in UrlHeads, t \in Texts(UrlTailChars, MaxTail)}

UrlCalls == {Request("validate_icloud_url", [url |-> u]) : u \in UrlInputs}

ValidateUrl ==
    /\ IsPending("validate_icloud_url")
    /\ call' = [call EXCEPT !.out = validate_icloud_url(call.arg.url)]
    /\ UNCHANGED <<env, configFile, cacheFile, now, version, run>>

------------------------------------------------------------------------------

InitValidate ==
    /\ call \in ImageCalls \cup UuidCalls \cup UrlCalls
    /\ env = PyNone
    /\ configFile = Missing
    /\ cacheFile = Missing
    /\ now = 0
    /\ version = "2.9"
    /\ run = NoRun

NextValidate == ValidateImage \/ ValidateUuid \/ ValidateUrl

SpecValidate == InitValidate /\ [][NextValidate]_vars

------------------------------------------------------------------------------
(* config.py *)

\* json.load(f) then config.get("api_key"), inside try/except (JSONDecodeError, IOError)
ReadConfigKey(file) ==
    IF file.state = "unopenable" THEN Return(PyNone)
    ELSE IF file.body = "undecodable" THEN Raise("UnicodeDecodeError", "json.load")
    ELSE IF file.body = "notjson" THEN Return(PyNone)
    ELSE IF file.top.t # "dict" THEN Raise("AttributeError", "config.get")
    ELSE Return(IF file.has THEN file.val ELSE PyNone)

get_api_key_env_first(cli_api_key, env_key, file) ==
    IF Truthy(env_key) THEN Return(env_key)
    ELSE IF Truthy(cli_api_key) THEN Return(cli_api_key)
    ELSE IF file.state # "missing" THEN ReadConfigKey(file)
    ELSE Return(PyNone)

get_api_key(cli_api_key, env_key, file) ==
    IF Truthy(cli_api_key) THEN Return(cli_api_key)
    ELSE IF Truthy(env_key) THEN Return(env_key)
    ELSE IF file.state # "missing" THEN ReadConfigKey(file)
    ELSE Return(PyNone)

ExplicitKeys == {PyNone, PyStr(""), PyStr("X")}
EnvKeys == {PyNone, PyStr(""), PyStr("Y")}
StoredKeys == {PyStr("Z"), PyStr("K"), PyStr(""), PyNone, PyInt(7)}

ConfigFiles ==
    {Missing, Unopenable, Undecodable, NotJson}
    \cup {JsonTop(v) : v \in NonObjects}
    \cup {JsonObject(FALSE, PyNone)}
    \cup {JsonObject(TRUE, v) : v \in StoredKeys}

\* get_api_key(cli_api_key)
GetApiKey ==
    /\ \E k \in ExplicitKeys :
          call' = [op |-> "get_api_key", arg |-> [explicit |-> k],
                   out |-> get_api_key(k, env, configFile), sent |-> <<>>]
    /\ UNCHANGED <<env, configFile, cacheFile, now, version, run>>

\* save_api_key(api_key): the write succeeds, or fails before the file is
\* opened (the file is as it was), or fails after open(.., "w") emptied it.
SaveApiKey ==
    /\ \E k \in {"Z", "K"}, io \in {"ok", "open_fails", "write_fails"} :
          /\ configFile' = CASE io = "ok" -> JsonObject(TRUE, PyStr(k))
                             [] io = "open_fails" -> configFile
                             [] io = "write_fails" -> NotJson
          /\ call' = [op |-> "save_api_key", arg |-> [api_key |-> k, io |-> io],
                      out |-> Return(PyBool(io = "ok")), sent |-> <<>>]
    /\ UNCHANGED <<env, cacheFile, now, version, run>>

\* The user exports, empties or unsets SHORTCUTY_API_KEY between runs.
SetEnv ==
    /\ \E v \in EnvKeys : env' = v
    /\ call' = Idle
    /\ UNCHANGED <<configFile, cacheFile, now, version, run>>

\* The files of ~/.shortcuty are ordinary user files: anything may be in them.
EditConfig ==
    /\ \E f \in ConfigFiles : configFile' = f
    /\ call' = Idle
    /\ UNCHANGED <<env, cacheFile, now, version, run>>

InitConfig ==
    /\ call = Idle
    /\ env = PyNone
    /\ configFile = Missing
    /\ cacheFile = Missing
    /\ now = 0
    /\ version = "2.9"
    /\ run = NoRun

NextConfig == GetApiKey \/ SaveApiKey \/ SetEnv \/ EditConfig

SpecConfig == InitConfig /\ [][NextConfig]_vars

------------------------------------------------------------------------------
(* updater.py: the update cache *)

CACHE_DURATION_HOURS == 24

\* The clock counts hours; the last day the clock reaches.
MaxDay == 1

MaxNow == (MaxDay + 1) * 24 - 1

DigitVal(c) == Find(Digits, c) - 1
DigitOf(k) == Ch(Digits, k + 1)

\* datetime.isoformat(), to the hour: <day>T<hh>.
isoformat(t) ==
    DigitOf(t \div 24) \o "T" \o DigitOf((t % 24) \div 10) \o DigitOf((t % 24) % 10)

\* datetime.fromisoformat(text): [valid, aware, t]; not valid is a ValueError,
\* aware is a timestamp with a UTC offset.
fromisoformat(text) ==
    LET shaped == /\ Len(text) >= 4
                  /\ IsIn(Ch(text, 1), Digits)
                  /\ Ch(text, 2) = "T"
                  /\ IsIn(Ch(text, 3), Digits)
                  /\ IsIn(Ch(text, 4), Digits)
                  /\ Drop(text, 4) \in {"", "+00:00"}
        hour == DigitVal(Ch(text, 3)) * 10 + DigitVal(Ch(text, 4))
    IN  IF shaped /\ hour < 24
        THEN [valid |-> TRUE, aware |-> Drop(text, 4) # "",
              t |-> DigitVal(Ch(text, 1)) * 24 + hour]
        ELSE [valid |-> FALSE, aware |-> FALSE, t |-> 0]

should_check_updates_strict(file, clock) ==
    IF file.state = "missing" THEN Return(PyBool(TRUE))
    ELSE IF file.state = "unopenable" THEN Return(PyBool(TRUE))
    ELSE IF file.body # "json" THEN Return(PyBool(TRUE))
    ELSE IF file.top.t # "dict" THEN Raise("AttributeError", "cache_data.get")
    ELSE LET last_check == IF file.has THEN file.val ELSE PyNone
             last_check_time == fromisoformat(last_check.s)
         IN  IF ~Truthy(last_check) THEN Return(PyBool(TRUE))
             ELSE IF last_check.t # "str" THEN Raise("TypeError", "fromisoformat")
             ELSE IF ~last_check_time.valid THEN Return(PyBool(TRUE))
             ELSE IF last_check_time.aware THEN Raise("TypeError", "subtract")
             ELSE Return(PyBool(clock - last_check_time.t > CACHE_DURATION_HOURS))

\* should_check_updates(): the except clause catches JSONDecodeError, IOError,
\* ValueError (so UnicodeDecodeError too) and KeyError, and nothing else.
should_check_updates(file, clock) ==
    IF file.state = "missing" THEN Return(PyBool(TRUE))
    ELSE IF file.state = "unopenable" THEN Return(PyBool(TRUE))
    ELSE IF file.body # "json" THEN Return(PyBool(TRUE))
    ELSE IF file.top.t # "dict" THEN Raise("AttributeError", "cache_data.get")
    ELSE LET last_check == IF file.has THEN file.val ELSE PyNone
             last_check_time == fromisoformat(last_check.s)
         IN  IF ~Truthy(last_check) THEN Return(PyBool(TRUE))
             ELSE IF last_check.t # "str" THEN Raise("TypeError", "fromisoformat")
             ELSE IF ~last_check_time.valid THEN Return(PyBool(TRUE))
             ELSE IF last_check_time.aware THEN Raise("TypeError", "subtract")
             ELSE Return(PyBool(clock - last_check_time.t >= CACHE_DURATION_HOURS))

\* update_cache_timestamp(): the file after the call. The write succeeds, or
\* fails before the file is opened, or fails after open(.., "w") emptied it;
\* the IOError is swallowed.
update_cache_timestamp(file, clock, io) ==
    CASE io = "ok" -> JsonObject(TRUE, PyStr(isoformat(clock)))
      [] io = "open_fails" -> file
      [] io = "write_fails" -> NotJson

\* What a user, or anything else, may leave in last_update_check.json.
LastCheckValues ==
    {PyNone, PyStr(""), PyInt(0), PyBool(FALSE), PyList(0),
     PyInt(7), PyBool(TRUE), PyList(1), PyDict(""),
     PyStr("yesterday"), PyStr("0T24"), PyStr("0T5"), PyStr("T05"), PyStr("0T05Z"),
     PyStr("0T05+00:00"), PyStr("1T00+00:00"),
     PyStr(isoformat(0)), PyStr(isoformat(MaxNow))}

CacheFiles ==
    {Missing, Unopenable, Undecodable, NotJson}
    \cup {JsonTop(v) : v \in NonObjects}
    \cup {JsonObject(FALSE, PyNone)}
    \cup {JsonObject(TRUE, v) : v \in LastCheckValues}

ShouldCheckUpdates ==
    /\ call' = [op |-> "should_check_updates", arg |-> <<>>,
                out |-> should_check_updates(cacheFile, now), sent |-> <<>>]
    /\ UNCHANGED <<env, configFile, cacheFile, now, version, run>>

UpdateCacheTimestamp ==
    /\ \E io \in {"ok", "open_fails", "write_fails"} :
          /\ cacheFile' = update_cache_timestamp(cacheFile, now, io)
          /\ call' = [op |-> "update_cache_timestamp", arg |-> [io |-> io],
                      out |-> Ok, sent |-> <<>>]
    /\ UNCHANGED <<env, configFile, now, version, run>>

\* An hour passes.
Tick ==
    /\ now < MaxNow
    /\ now' = now + 1
    /\ call' = Idle
    /\ UNCHANGED <<env, configFile, cacheFile, version, run>>

EditCache ==
    /\ \E f \in CacheFiles : cacheFile' = f
    /\ call' = Idle
    /\ UNCHANGED <<env, configFile, now, version, run>>

InitCache ==
    /\ call = Idle
    /\ env = PyNone
    /\ configFile = Missing
    /\ cacheFile = Missing
    /\ now = 0
    /\ version = "2.9"
    /\ run = NoRun

NextCache == ShouldCheckUpdates \/ UpdateCacheTimestamp \/ Tick \/ EditCache

SpecCache == InitCache /\ [][NextCache]_vars

------------------------------------------------------------------------------
(* updater.py: check_for_updates *)

\* int(digits), for a non-empty text of decimal digits.
RECURSIVE ParseInt(_)
ParseInt(d) ==
    IF d = "" THEN 0 ELSE ParseInt(Take(d, Len(d) - 1)) * 10 + DigitVal(Ch(d, Len(d)))

AllDigits(d) == d # "" /\ \A i \in 1..Len(d) : IsIn(Ch(d, i), Digits)

\* s.split(".")
RECURSIVE SplitDots(_)
SplitDots(s) ==
    LET k == Find(s, ".")
    IN  IF k = 0 THEN <<s>> ELSE <<Take(s, k - 1)>> \o SplitDots(Drop(s, k))

\* packaging.version.parse on text of digits, dots, letters and whitespace:
\* ^\s*v?[0-9]+(\.[0-9]+)*\s*$, case-insensitive; anything else is
\* InvalidVersion. release is the tuple of numbers.
ParseVersion(text) ==
    LET a == Strip(text, Whitespace)
        b == IF a # "" /\ IsIn(Ch(a, 1), "vV") THEN Drop(a, 1) ELSE a
        parts == SplitDots(b)
        valid == \A i \in 1..Len(parts) : AllDigits(parts[i])
    IN  [valid |-> valid,
         release |-> IF valid THEN [i \in 1..Len(parts) |-> ParseInt(parts[i])] ELSE <<>>]

\* Version._key: the release without its trailing zeros.
RECURSIVE StripTrailingZeros(_)
StripTrailingZeros(r) ==
    IF r # <<>> /\ r[Len(r)] = 0 THEN StripTrailingZeros(SubSeq(r, 1, Len(r) - 1)) ELSE r

\* Tuple comparison a > b.
RECURSIVE TupleGreater(_, _)
TupleGreater(a, b) ==
    IF a = <<>> THEN FALSE
    ELSE IF b = <<>> THEN TRUE
    ELSE IF a[1] # b[1] THEN a[1] > b[1]
    ELSE TupleGreater(Tail(a), Tail(b))

\* version.parse(x) > version.parse(y), both valid.
VersionGreater(x, y) ==
    TupleGreater(StripTrailingZeros(ParseVersion(x).release),
                 StripTrailingZeros(ParseVersion(y).release))

\* response.raise_for_status() raises HTTPError for a 4xx or 5xx status.
RaisesForStatus(status) == status >= 400 /\ status < 600

\* check_for_updates(): response is what requests.get gave: kind "error" is a
\* RequestException (no connection, timeout), kind "ok" a response with a
\* status and a text.
check_for_updates(response, current_version) ==
    IF response.kind = "error" THEN Return(PyNone)
    ELSE IF RaisesForStatus(response.status) THEN Return(PyNone)
    ELSE LET latest_version == LStrip(Strip(response.text, Whitespace), "v")
         IN  IF ~ParseVersion(latest_version).valid \/ ~ParseVersion(current_version).valid
             THEN Return(PyNone)
             ELSE IF VersionGreater(latest_version, current_version)
             THEN Return(PyDict(latest_version))
             ELSE Return(PyNone)

VersionLeads == {"", "v", "vv", "vvv", "V", " v", "v ", "x", "\n"}

VersionCores ==
    {"2.9", "2.10", "2.9.0", "2.9.1", "3", "2", "02.9", "2..9", "2.", ".9", "",
     "not-a-version", "2.9x", "2 .9", "10.0", "1.99", "2.10.0"}

VersionTrails == {"", "\n", " ", "v"}

VersionTexts == {l \o c \o t : l \in VersionLeads, c \in VersionCores, t \in VersionTrails}

VersionResponses ==
    {[kind |-> "error", status |-> 0, text |-> ""]}
    \cup {[kind |-> "ok", status |-> 200, text |-> t] : t \in VersionTexts}
    \cup {[kind |-> "ok", status |-> st, text |-> t] :
            st \in {204, 300, 404, 503}, t \in {"2.10", "Not Found", ""}}

CurrentVersions == {"2.9", "2.10", "1.0.0"}

CheckCalls == {Request("check_for_updates", [response |-> r]) : r \in VersionResponses}

CheckForUpdates ==
    /\ IsPending("check_for_updates")
    /\ call' = [call EXCEPT !.out = check_for_updates(call.arg.response, version)]
    /\ UNCHANGED <<env, configFile, cacheFile, now, version, run>>

InitVersion ==
    /\ call \in CheckCalls
    /\ env = PyNone
    /\ configFile = Missing
    /\ cacheFile = Missing
    /\ now = 0
    /\ version \in CurrentVersions
    /\ run = NoRun

NextVersion == CheckForUpdates

SpecVersion == InitVersion /\ [][NextVersion]_vars

------------------------------------------------------------------------------
(* api_client.py: ShortcutyAPIClient *)

\* What session.request gave: kind "error" is a RequestException raised by the
\* transport; kind "ok" is a response with a status and a body. The body is
\* [t, msg, err]: t is "notjson" or the type of the JSON document; msg and err
\* say whether "message" and "error" are in it (a key of an object, an element
\* of a list, a part of a string).
HttpBody(t, m, e) == [t |-> t, msg |-> m, err |-> e]

HttpBodies ==
    {HttpBody("notjson", FALSE, FALSE), HttpBody("int", FALSE, FALSE),
     HttpBody("none", FALSE, FALSE)}
    \cup {HttpBody(t, m, e) : t \in {"dict", "list", "str"}, m \in BOOLEAN, e \in BOOLEAN}

HttpResponses ==
    {[kind |-> "error", status |-> 0, body |-> HttpBody("notjson", FALSE, FALSE)]}
    \cup {[kind |-> "ok", status |-> 200, body |-> HttpBody(t, FALSE, FALSE)] :
            t \in {"dict", "list", "notjson"}}
    \cup {[kind |-> "ok", status |-> st, body |-> b] : st \in {404, 500}, b \in HttpBodies}

RaiseMsg(e, w, v) == [kind |-> "raise", exc |-> e, why |-> w, val |-> v]

\* The text of the ShortcutyAPIError _request raises for an HTTPError.
DefaultErrorMsg(status) == [t |-> "str", s |-> "API request failed: ", n |-> status]

\* _request, lines 161-172: the handler of HTTPError. "message" in error_data
\* and error_data["message"] are the object's only for a dict.
HandleHTTPError(status, body) ==
    IF body.t = "notjson"
    THEN RaiseMsg("ShortcutyAPIError", "http", DefaultErrorMsg(status))
    ELSE IF body.t \in {"int", "none"} THEN Raise("TypeError", "in")
    ELSE IF body.msg
         THEN IF body.t = "dict"
              THEN RaiseMsg("ShortcutyAPIError", "http", PyStr("message"))
              ELSE Raise("TypeError", "subscript")
    ELSE IF body.err
         THEN IF body.t = "dict"
              THEN RaiseMsg("ShortcutyAPIError", "http", PyStr("error"))
              ELSE Raise("TypeError", "subscript")
    ELSE RaiseMsg("ShortcutyAPIError", "http", DefaultErrorMsg(status))

\* The outcome of _request for what session.request gave.
RequestOutcome(resp) ==
    IF resp.kind = "error" THEN Raise("ShortcutyAPIError", "transport")
    ELSE IF RaisesForStatus(resp.status) THEN HandleHTTPError(resp.status, resp.body)
    ELSE IF resp.body.t = "notjson" THEN Raise("ShortcutyAPIError", "transport")
    ELSE Return([t |-> resp.body.t, s |-> "", n |-> 0])

\* An HTTP request: how the data travels ("json", "params", "files", "none")
\* and the data, a function from field names to values.
HttpRequest(method, endpoint, how, data) ==
    [method |-> method, endpoint |-> endpoint, how |-> how, data |-> data]

\* The result of an API operation: its outcome and the requests it sent.
Sent(method, endpoint, how, data, resp) ==
    [out |-> RequestOutcome(resp), sent |-> <<HttpRequest(method, endpoint, how, data)>>]

NotSent(outcome) == [out |-> outcome, sent |-> <<>>]

\* if value is not None: data[key] = value
With(data, key, value) == IF value # PyNone THEN (key :> value) @@ data ELSE data

\* data[key] = value, whatever the value.
WithAlways(data, key, value) == (key :> value) @@ data

get_categories(a, resp) ==
    LET r == Sent("GET", "/categories", "none", <<>>, resp)
    IN  IF r.out.kind = "return" /\ r.out.val.t # "dict"
        THEN [r EXCEPT !.out = Raise("AttributeError", "response.get")]
        ELSE r

CreatePayload(a) ==
    LET d0 == "sharing_url" :> a.sharing_url
        d1 == With(d0, "description", a.description)
        d2 == With(d1, "category", a.category)
        d3 == With(d2, "requires_ios26_ai", a.requires_ios26_ai)
        d4 == With(d3, "updater_type", a.updater_type)
    IN  With(d4, "submit", a.submit)

CreatePayloadAllFields(a) ==
    LET d0 == "sharing_url" :> a.sharing_url
        d1 == WithAlways(d0, "description", a.description)
        d2 == WithAlways(d1, "category", a.category)
        d3 == WithAlways(d2, "requires_ios26_ai", a.requires_ios26_ai)
        d4 == WithAlways(d3, "updater_type", a.updater_type)
    IN  WithAlways(d4, "submit", a.submit)

create_shortcut_all_fields(a, resp) ==
    IF validate_icloud_url(a.sharing_url.s) # Ok
    THEN NotSent(validate_icloud_url(a.sharing_url.s))
    ELSE Sent("POST", "/shortcuts", "json", CreatePayloadAllFields(a), resp)

create_shortcut(a, resp) ==
    IF validate_icloud_url(a.sharing_url.s) # Ok
    THEN NotSent(validate_icloud_url(a.sharing_url.s))
    ELSE Sent("POST", "/shortcuts", "json", CreatePayload(a), resp)

list_shortcuts(a, resp) ==
    Sent("GET", "/shortcuts/my", "params",
         ("page" :> PyInt(a.page)) @@ ("per_page" :> PyInt(a.per_page)), resp)

get_shortcut(a, resp) ==
    IF validate_uuid(a.uuid) # Ok THEN NotSent(validate_uuid(a.uuid))
    ELSE Sent("GET", "/shortcuts/" \o a.uuid, "none", <<>>, resp)

get_shortcut_history(a, resp) ==
    IF validate_uuid(a.uuid) # Ok THEN NotSent(validate_uuid(a.uuid))
    ELSE Sent("GET", "/shortcuts/" \o a.uuid \o "/history", "none", <<>>, resp)

submit_shortcut(a, resp) ==
    IF validate_uuid(a.uuid) # Ok THEN NotSent(validate_uuid(a.uuid))
    ELSE Sent("POST", "/shortcuts/" \o a.uuid \o "/submit", "none", <<>>, resp)

UpdatePayload(a) ==
    LET d1 == With(<<>>, "name", a.name)
        d2 == With(d1, "description", a.description)
        d3 == With(d2, "sharing_url", a.sharing_url)
        d4 == With(d3, "category", a.category)
        d5 == With(d4, "requires_ios26_ai", a.requires_ios26_ai)
        d6 == With(d5, "updater_type", a.updater_type)
        d7 == With(d6, "new_version", a.new_version)
    IN  With(d7, "changelog", a.changelog)

update_shortcut_no_url_check(a, resp) ==
    IF validate_uuid(a.uuid) # Ok THEN NotSent(validate_uuid(a.uuid))
    ELSE Sent("POST", "/shortcuts/" \o a.uuid \o "/update", "json", UpdatePayload(a), resp)

update_shortcut(a, resp) ==
    IF validate_uuid(a.uuid) # Ok THEN NotSent(validate_uuid(a.uuid))
    ELSE IF a.sharing_url # PyNone /\ validate_icloud_url(a.sharing_url.s) # Ok
    THEN NotSent(validate_icloud_url(a.sharing_url.s))
    ELSE Sent("POST", "/shortcuts/" \o a.uuid \o "/update", "json", UpdatePayload(a), resp)

\* upload_screenshot: open(file_path, "rb") raises FileNotFoundError for a
\* missing file and another IOError for one that cannot be opened.
upload_screenshot(a, resp) ==
    IF validate_uuid(a.uuid) # Ok THEN NotSent(validate_uuid(a.uuid))
    ELSE IF a.file.state = "missing" THEN NotSent(Raise("ShortcutyAPIError", "not_found"))
    ELSE IF ~CanOpen(a.file) THEN NotSent(Raise("ShortcutyAPIError", "io"))
    ELSE Sent("POST", "/upload/screenshot", "files",
              ("file" :> PyStr(a.path)) @@ ("shortcut_id" :> PyStr(a.uuid)), resp)

delete_screenshot(a, resp) ==
    IF validate_uuid(a.uuid) # Ok THEN NotSent(validate_uuid(a.uuid))
    ELSE Sent("DELETE",
              "/shortcuts/" \o a.uuid \o "/screenshots/" \o DigitOf(a.screenshot_id),
              "none", <<>>, resp)

\* The arguments the operations are called with.
ClientUuids == {BaseUUID, Remove(BaseUUID, "-"), "not-a-uuid", ""}

GoodUrl == "https://www.icloud.com/shortcuts/abc123"
BadUrls == {"https://example.com/shortcuts/abc123", "https://icloud.com/shortcuts/", ""}

Opt(x) == {PyNone, PyStr(x)}
OptBool == {PyNone, PyBool(TRUE), PyBool(FALSE)}

CreateArgs ==
    [sharing_url : {PyStr(u) : u \in {GoodUrl} \cup BadUrls},
     description : Opt("d") \cup {PyStr("")},
     category : Opt("Productivity"),
     requires_ios26_ai : OptBool,
     updater_type : Opt("none"),
     submit : {PyNone, PyBool(TRUE)}]

UpdateArgs ==
    [uuid : ClientUuids,
     name : Opt("n"),
     description : Opt("d"),
     sharing_url : {PyNone} \cup {PyStr(u) : u \in {GoodUrl} \cup BadUrls},
     category : Opt("Productivity"),
     requires_ios26_ai : {PyNone, PyBool(TRUE)},
     updater_type : Opt("none"),
     new_version : Opt("2.0"),
     changelog : Opt("c")]

UploadFiles ==
    {[state |-> "ok", bytes |-> b] :
        b \in {PNG_SIGNATURE, JPEG_SIGNATURE \o Pad(1), Pad(2), Pad(8)}}
    \cup {[state |-> st, bytes |-> <<>>] : st \in {"missing", "denied"}}

UploadArgs ==
    [uuid : ClientUuids, path : {"a.png", "a.JPG", "a.txt", "a"}, file : UploadFiles]

MaxId == 2

ApiCalls ==
    {Request("get_categories", <<>>)}
    \cup {Request("create_shortcut", a) : a \in CreateArgs}
    \cup {Request("list_shortcuts", a) : a \in [page : 1..2, per_page : {20}]}
    \cup {Request("get_shortcut", a) : a \in [uuid : ClientUuids]}
    \cup {Request("get_shortcut_history", a) : a \in [uuid : ClientUuids]}
    \cup {Request("submit_shortcut", a) : a \in [uuid : ClientUuids]}
    \cup {Request("update_shortcut", a) : a \in UpdateArgs}
    \cup {Request("upload_screenshot", a) : a \in UploadArgs}
    \cup {Request("delete_screenshot", a) :
            a \in [uuid : ClientUuids, screenshot_id : 0..MaxId]}

\* The pending call runs; the server answers it somehow.
Finish(r) ==
    /\ call' = [call EXCEPT !.out = r.out, !.sent = r.sent]
    /\ UNCHANGED <<env, configFile, cacheFile, now, version, run>>

GetCategories ==
    IsPending("get_categories") /\ \E resp \in HttpResponses : Finish(get_categories(call.arg, resp))

CreateShortcut ==
    IsPending("create_shortcut") /\ \E resp \in HttpResponses : Finish(create_shortcut(call.arg, resp))

ListShortcuts ==
    IsPending("list_shortcuts") /\ \E resp \in HttpResponses : Finish(list_shortcuts(call.arg, resp))

GetShortcut ==
    IsPending("get_shortcut") /\ \E resp \in HttpResponses : Finish(get_shortcut(call.arg, resp))

GetShortcutHistory ==
    IsPending("get_shortcut_history")
    /\ \E resp \in HttpResponses : Finish(get_shortcut_history(call.arg, resp))

SubmitShortcut ==
    IsPending("submit_shortcut") /\ \E resp \in HttpResponses : Finish(submit_shortcut(call.arg, resp))

UpdateShortcut ==
    IsPending("update_shortcut") /\ \E resp \in HttpResponses : Finish(update_shortcut(call.arg, resp))

UploadScreenshot ==
    IsPending("upload_screenshot")
    /\ \E resp \in HttpResponses : Finish(upload_screenshot(call.arg, resp))

DeleteScreenshot ==
    IsPending("delete_screenshot")
    /\ \E resp \in HttpResponses : Finish(delete_screenshot(call.arg, resp))

InitClient ==
    /\ call \in ApiCalls
    /\ env = PyNone
    /\ configFile = Missing
    /\ cacheFile = Missing
    /\ now = 0
    /\ version = "2.9"
    /\ run = NoRun

NextClient ==
    \/ GetCategories
    \/ CreateShortcut
    \/ ListShortcuts
    \/ GetShortcut
    \/ GetShortcutHistory
    \/ SubmitShortcut
    \/ UpdateShortcut
    \/ UploadScreenshot
    \/ DeleteScreenshot

SpecClient == InitClient /\ [][NextClient]_vars

------------------------------------------------------------------------------
(* api_client.py: ShortcutyAPIClient._request on its own *)

RequestMethods == {"GET", "POST", "DELETE"}
RequestEndpoints == {"/categories", "/shortcuts"}

RequestCalls ==
    {Request("_request", a) :
        a \in [method : RequestMethods, endpoint : RequestEndpoints, resp : HttpResponses]}

\* One call of _request: the request is sent and the answer handled.
ApiRequest ==
    /\ IsPending("_request")
    /\ Finish(Sent(call.arg.method, call.arg.endpoint, "none", <<>>, call.arg.resp))

InitRequest ==
    /\ call \in RequestCalls
    /\ env = PyNone
    /\ configFile = Missing
    /\ cacheFile = Missing
    /\ now = 0
    /\ version = "2.9"
    /\ run = NoRun

NextRequest == ApiRequest

SpecRequest == InitRequest /\ [][NextRequest]_vars

------------------------------------------------------------------------------
(* cli.py: one run of the command line.  run.pc is "idle" (no process),     *)
(* "group" (main called, the group callback about to run), "command" (the   *)
(* group callback returned, the subcommand about to run) or "exited".       *)
(* run.events lists, in order, what the run did: "fetch" (check_for_updates *)
(* called), "notify" (show_update_notification called), "write"             *)
(* (update_cache_timestamp called), "body" (the command function entered),  *)
(* "request" (an API request sent), "install" (install_update called).      *)
(* run.output lists the kinds of text printed: "result", "info", "notice",  *)
(* "error" (one line on stderr) and "traceback" (an uncaught exception).    *)

Commands ==
    {"categories", "create", "list", "get", "history", "submit", "update",
     "upload-screenshot", "delete-screenshot", "check-updates", "cli-update"}

\* The commands decorated with @require_api_key.
AuthCommands ==
    {"create", "list", "get", "history", "submit", "update",
     "upload-screenshot", "delete-screenshot"}

\* The run ends with exit code `code` after printing `lines`.
ExitWith(r, code, lines) ==
    [r EXCEPT !.pc = "exited", !.exit = code, !.output = @ \o lines]

\* An exception nothing catches: the interpreter prints the traceback and
\* exits with status 1.
Crash(r, outcome) ==
    [r EXCEPT !.pc = "exited", !.exit = 1, !.exc = outcome,
              !.output = @ \o <<"traceback">>]

\* click fills api_key from --api-key, else from the non-empty environment
\* variable named by envvar=.
ClickApiKey(explicit, env_key) ==
    IF explicit # PyNone THEN explicit
    ELSE IF Truthy(env_key) THEN env_key
    ELSE PyNone

\* show_update_notification(update_info): prints the notice, or raises.
show_update_notification(shown) ==
    IF shown THEN Ok ELSE Raise("Exception", "show_update_notification")

\* The group callback without the test of should_check_updates().
cli_ignores_cache(argv, key, should, update_info, notice, written, cache) ==
    IF key.kind = "raise"
    THEN [run |-> Crash([NoRun EXCEPT !.argv = argv], key), cache |-> cache]
    ELSE IF argv.no_check_updates
    THEN [run |-> [NoRun EXCEPT !.argv = argv, !.api_key = key.val, !.pc = "command"],
          cache |-> cache]
    ELSE IF ~Truthy(update_info.val)
    THEN [run |-> [NoRun EXCEPT !.argv = argv, !.api_key = key.val, !.pc = "command",
                                !.events = <<"fetch", "write">>],
          cache |-> written]
    ELSE IF notice.kind = "raise"
    THEN [run |-> [NoRun EXCEPT !.argv = argv, !.api_key = key.val, !.pc = "command",
                                !.events = <<"fetch", "notify">>],
          cache |-> cache]
    ELSE [run |-> [NoRun EXCEPT !.argv = argv, !.api_key = key.val, !.pc = "command",
                                !.events = <<"fetch", "notify", "write">>,
                                !.output = <<"notice">>],
          cache |-> written]

\* The group callback without the short circuit on --no-check-updates.
cli_always_checks(argv, key, should, update_info, notice, written, cache) ==
    IF key.kind = "raise"
    THEN [run |-> Crash([NoRun EXCEPT !.argv = argv], key), cache |-> cache]
    ELSE IF should.kind = "raise"
    THEN [run |-> Crash([NoRun EXCEPT !.argv = argv, !.api_key = key.val], should),
          cache |-> cache]
    ELSE IF ~Truthy(should.val)
    THEN [run |-> [NoRun EXCEPT !.argv = argv, !.api_key = key.val, !.pc = "command"],
          cache |-> cache]
    ELSE IF ~Truthy(update_info.val)
    THEN [run |-> [NoRun EXCEPT !.argv = argv, !.api_key = key.val, !.pc = "command",
                                !.events = <<"fetch", "write">>],
          cache |-> written]
    ELSE IF notice.kind = "raise"
    THEN [run |-> [NoRun EXCEPT !.argv = argv, !.api_key = key.val, !.pc = "command",
                                !.events = <<"fetch", "notify">>],
          cache |-> cache]
    ELSE [run |-> [NoRun EXCEPT !.argv = argv, !.api_key = key.val, !.pc = "command",
                                !.events = <<"fetch", "notify", "write">>,
                                !.output = <<"notice">>],
          cache |-> written]

\* The group callback cli(ctx, api_key, json_output, no_check_updates), given
\* what the calls it makes give: key is get_api_key(api_key), should is
\* should_check_updates(), update_info is check_for_updates(), notice is
\* show_update_notification(update_info), written is the cache file after
\* update_cache_timestamp(). The result is the run and the cache file after
\* the callback. get_api_key and should_check_updates are called outside the
\* try block; an exception of show_update_notification skips
\* update_cache_timestamp and is passed over.
cli(argv, key, should, update_info, notice, written, cache) ==
    IF key.kind = "raise"
    THEN [run |-> Crash([NoRun EXCEPT !.argv = argv], key), cache |-> cache]
    ELSE IF argv.no_check_updates
    THEN [run |-> [NoRun EXCEPT !.argv = argv, !.api_key = key.val, !.pc = "command"],
          cache |-> cache]
    ELSE IF should.kind = "raise"
    THEN [run |-> Crash([NoRun EXCEPT !.argv = argv, !.api_key = key.val], should),
          cache |-> cache]
    ELSE IF ~Truthy(should.val)
    THEN [run |-> [NoRun EXCEPT !.argv = argv, !.api_key = key.val, !.pc = "command"],
          cache |-> cache]
    ELSE IF ~Truthy(update_info.val)
    THEN [run |-> [NoRun EXCEPT !.argv = argv, !.api_key = key.val, !.pc = "command",
                                !.events = <<"fetch", "write">>],
          cache |-> written]
    ELSE IF notice.kind = "raise"
    THEN [run |-> [NoRun EXCEPT !.argv = argv, !.api_key = key.val, !.pc = "command",
                                !.events = <<"fetch", "notify">>],
          cache |-> cache]
    ELSE [run |-> [NoRun EXCEPT !.argv = argv, !.api_key = key.val, !.pc = "command",
                                !.events = <<"fetch", "notify", "write">>,
                                !.output = <<"notice">>],
          cache |-> written]

\* require_api_key: the wrapper rejects a falsy key before calling f.
Rejected(r) == ~Truthy(r.api_key)

Reject(r) == ExitWith(r, 1, <<"error">>)

\* The command function is entered.
Enter(r) == [r EXCEPT !.events = @ \o <<"body">>]

\* A call with keyword arguments kw of a method whose parameters are params:
\* a keyword the method does not have is a TypeError, raised before the
\* method runs.
CallWith(params, kw, result) ==
    IF DOMAIN kw \subseteq params THEN result
    ELSE NotSent(Raise("TypeError", "unexpected keyword argument"))

\* kw[name], or the parameter's default None.
Arg(kw, name) == IF name \in DOMAIN kw THEN kw[name] ELSE PyNone

\* The formatters: with --json any document is dumped; otherwise they call
\* response.get, which only a JSON object has.
Format(value, json_output) ==
    IF json_output \/ value.t = "dict" THEN Ok
    ELSE Raise("AttributeError", "response.get")

\* The end of a command's try block: result is what the API operation did,
\* formatted what formatting its response does. Only ShortcutyAPIError is
\* caught.
Report(r, result, formatted) ==
    IF result.out.kind = "raise" /\ result.out.exc = "ShortcutyAPIError"
    THEN [r EXCEPT !.pc = "exited", !.exit = 1, !.exc = result.out,
                   !.events = @ \o [i \in 1..Len(result.sent) |-> "request"],
                   !.output = @ \o <<"error">>]
    ELSE IF result.out.kind = "raise"
    THEN [r EXCEPT !.pc = "exited", !.exit = 1, !.exc = result.out,
                   !.events = @ \o [i \in 1..Len(result.sent) |-> "request"],
                   !.output = @ \o <<"traceback">>]
    ELSE IF formatted.kind = "raise"
    THEN [r EXCEPT !.pc = "exited", !.exit = 1, !.exc = formatted,
                   !.events = @ \o [i \in 1..Len(result.sent) |-> "request"],
                   !.output = @ \o <<"traceback">>]
    ELSE [r EXCEPT !.pc = "exited", !.exit = 0,
                   !.events = @ \o [i \in 1..Len(result.sent) |-> "request"],
                   !.output = @ \o <<"result">>]

\* A decorated command: result is what the API operation it calls gives.
AuthCommand(r, result) ==
    IF Rejected(r) THEN Reject(r)
    ELSE Report(Enter(r), result, Format(result.out.val, r.argv.json_output))

\* The parameters of the API operations that the commands call by keyword.
CreateShortcutParams ==
    {"sharing_url", "description", "category", "requires_ios26_ai", "updater_type", "submit"}

UpdateShortcutParams ==
    {"uuid", "name", "description", "sharing_url", "category", "requires_ios26_ai",
     "updater_type", "new_version", "changelog"}

ListShortcutsParams == {"page", "per_page"}

\* categories: not decorated; a client without a key.
categories_command(r, result) == Report(Enter(r), result, Ok)

\* create: the keywords passed at lines 107-114.
CreateKeywords(a) ==
    [sharing_url |-> a.sharing_url, description |-> PyNone, category |-> PyNone,
     requires_ios26_ai |-> PyNone, updater_type |-> PyNone,
     auto_submit |-> IF a.auto_submit THEN PyBool(TRUE) ELSE PyNone]

\* The arguments create_shortcut receives for keywords kw.
CreateBound(kw) ==
    [sharing_url |-> Arg(kw, "sharing_url"),
     description |-> Arg(kw, "description"),
     category |-> Arg(kw, "category"),
     requires_ios26_ai |-> Arg(kw, "requires_ios26_ai"),
     updater_type |-> Arg(kw, "updater_type"),
     submit |-> Arg(kw, "submit")]

\* create: response.get("shortcut", {}) is called on whatever the API gave.
create_command(r, result) ==
    IF Rejected(r) THEN Reject(r)
    ELSE Report(Enter(r), result,
                IF result.out.val.t = "dict" THEN Ok
                ELSE Raise("AttributeError", "response.get"))

list_command(r, result) == AuthCommand(r, result)

get_command(r, result) == AuthCommand(r, result)

history_command(r, result) == AuthCommand(r, result)

submit_command(r, result) == AuthCommand(r, result)

\* update: the keywords passed at lines 216-225.
UpdateKeywords(a) ==
    [uuid |-> PyStr(a.uuid), description |-> PyNone, sharing_url |-> a.sharing_url,
     category |-> PyNone, requires_ios26_ai |-> PyNone, updater_type |-> PyNone,
     version |-> a.version, changelog |-> PyNone]

UpdateBound(kw) ==
    [uuid |-> Arg(kw, "uuid").s,
     name |-> Arg(kw, "name"),
     description |-> Arg(kw, "description"),
     sharing_url |-> Arg(kw, "sharing_url"),
     category |-> Arg(kw, "category"),
     requires_ios26_ai |-> Arg(kw, "requires_ios26_ai"),
     updater_type |-> Arg(kw, "updater_type"),
     new_version |-> Arg(kw, "new_version"),
     changelog |-> Arg(kw, "changelog")]

\* update: without any field the command stops at line 212.
update_command(r, kw, result) ==
    IF Rejected(r) THEN Reject(r)
    ELSE IF \A k \in DOMAIN kw \ {"uuid"} : ~Truthy(kw[k])
    THEN ExitWith(Enter(r), 1, <<"error">>)
    ELSE Report(Enter(r), result, Format(result.out.val, r.argv.json_output))

\* upload-screenshot: click.Path(exists=True, readable=True) refuses the
\* argument with a usage error (exit 2) before the command is called; valid
\* is validate_image_file(file), result what client.upload_screenshot gives.
upload_screenshot_command(r, valid, result) ==
    IF ~CanOpen(r.argv.args.file) THEN ExitWith(r, 2, <<"error">>)
    ELSE IF Rejected(r) THEN Reject(r)
    ELSE IF valid # Ok THEN Report(Enter(r), NotSent(valid), Ok)
    ELSE Report(Enter(r), result, Format(result.out.val, r.argv.json_output))

delete_screenshot_command(r, result) == AuthCommand(r, result)

\* check-updates: the fetch, then the timestamp in both branches; written is
\* the cache file after update_cache_timestamp().
check_updates_command(r, update_info, written) ==
    [run |-> [r EXCEPT !.pc = "exited", !.exit = 0,
                       !.events = @ \o <<"body", "fetch", "write">>,
                       !.output = @ \o <<"info", "info", "result">>],
     cache |-> written]

\* cli-update: the fetch; with an update, install_update and the timestamp
\* only when it succeeded. ctx.exit(1) at line 310 raises inside the try
\* block, is caught at line 314 and raised again at line 316.
cli_update_command(r, update_info, installed, written, cache) ==
    IF ~Truthy(update_info.val)
    THEN [run |-> [r EXCEPT !.pc = "exited", !.exit = 0,
                            !.events = @ \o <<"body", "fetch", "write">>,
                            !.output = @ \o <<"info", "info", "result">>],
          cache |-> written]
    ELSE IF installed
    THEN [run |-> [r EXCEPT !.pc = "exited", !.exit = 0,
                            !.events = @ \o <<"body", "fetch", "install", "write">>,
                            !.output = @ \o <<"info", "info", "info", "result">>],
          cache |-> written]
    ELSE [run |-> [r EXCEPT !.pc = "exited", !.exit = 1,
                            !.events = @ \o <<"body", "fetch", "install">>,
                            !.output = @ \o <<"info", "info", "info", "error", "error", "error">>],
          cache |-> cache]

\* The command lines the runs are started with.
CliUuids == {BaseUUID, "not-a-uuid"}

OtherUrl == "https://example.com/shortcuts/abc123"

CliFiles == {[state |-> "ok", bytes |-> PNG_SIGNATURE], [state |-> "missing", bytes |-> <<>>]}

CommandArgs(cmd) ==
    CASE cmd = "create" ->
            [sharing_url : {PyStr(GoodUrl), PyStr(OtherUrl)}, auto_submit : BOOLEAN]
      [] cmd = "list" -> [page : {1}, per_page : {20}]
      [] cmd \in {"get", "history", "submit"} -> [uuid : CliUuids]
      [] cmd = "update" ->
            [uuid : CliUuids,
             sharing_url : {PyNone, PyStr(GoodUrl), PyStr(OtherUrl)},
             version : Opt("2.0")]
      [] cmd = "upload-screenshot" ->
            [uuid : CliUuids, path : {"a.png", "a.txt"}, file : CliFiles]
      [] cmd = "delete-screenshot" -> [uuid : CliUuids, screenshot_id : {1}]
      [] OTHER -> {<<>>}

\* --json changes what the formatters do with a response that is not an
\* object; one command is run with and without it.
Argvs ==
    UNION {[cmd : {c}, api_key : Opt("X"),
            json_output : IF c = "get" THEN BOOLEAN ELSE {FALSE},
            no_check_updates : BOOLEAN, args : CommandArgs(c)] : c \in Commands}

\* What the server answers to the request of a command.
CliHttpResponses ==
    {[kind |-> "error", status |-> 0, body |-> HttpBody("notjson", FALSE, FALSE)],
     [kind |-> "ok", status |-> 200, body |-> HttpBody("dict", FALSE, FALSE)],
     [kind |-> "ok", status |-> 200, body |-> HttpBody("list", FALSE, FALSE)],
     [kind |-> "ok", status |-> 404, body |-> HttpBody("dict", TRUE, FALSE)],
     [kind |-> "ok", status |-> 500, body |-> HttpBody("notjson", FALSE, FALSE)],
     [kind |-> "ok", status |-> 500, body |-> HttpBody("none", FALSE, FALSE)]}

\* What requests.get(VERSION_FILE_URL) gives during a run.
CliVersionResponses ==
    {[kind |-> "error", status |-> 0, text |-> ""],
     [kind |-> "ok", status |-> 200, text |-> "2.10"],
     [kind |-> "ok", status |-> 200, text |-> "2.9"],
     [kind |-> "ok", status |-> 404, text |-> "Not Found"]}

\* The state of ~/.shortcuty when the first run starts.
CliConfigFiles == {Missing}

CliCacheFiles ==
    {Missing, NotJson, JsonTop(PyList(0)), JsonObject(TRUE, PyStr(isoformat(0)))}

\* main(): the process starts with a command line.
Invoke ==
    /\ run.pc = "idle"
    /\ \E a \in Argvs : run' = [NoRun EXCEPT !.pc = "group", !.argv = a]
    /\ UNCHANGED <<call, env, configFile, cacheFile, now, version>>

\* The group callback runs.
Cli ==
    /\ run.pc = "group"
    /\ \E key \in {get_api_key(ClickApiKey(run.argv.api_key, env), env, configFile)},
          should \in {should_check_updates(cacheFile, now)} :
          \E response \in CliVersionResponses :
             \E update_info \in {check_for_updates(response, version)} :
                \E io \in {"ok", "open_fails", "write_fails"} :
                   \E written \in {update_cache_timestamp(cacheFile, now, io)} :
                      \E shown \in BOOLEAN :
                         \E after \in {cli(run.argv, key, should, update_info,
                                           show_update_notification(shown), written,
                                           cacheFile)} :
                            /\ run' = after.run
                            /\ cacheFile' = after.cache
    /\ UNCHANGED <<call, env, configFile, now, version>>

\* The subcommand cmd is about to run.
AtCommand(cmd) == run.pc = "command" /\ run.argv.cmd = cmd

\* A command that only calls the API ends: the run after it.
EndCommand(after) ==
    /\ run' = after
    /\ UNCHANGED <<call, env, configFile, cacheFile, now, version>>

CmdCategories ==
    /\ AtCommand("categories")
    /\ \E resp \in CliHttpResponses :
          \E result \in {get_categories(<<>>, resp)} :
             EndCommand(categories_command(run, result))

CmdCreate ==
    /\ AtCommand("create")
    /\ \E resp \in CliHttpResponses :
          \E kw \in {CreateKeywords(run.argv.args)} :
             \E result \in {CallWith(CreateShortcutParams, kw,
                                     create_shortcut(CreateBound(kw), resp))} :
                EndCommand(create_command(run, result))

CmdList ==
    /\ AtCommand("list")
    /\ \E resp \in CliHttpResponses :
          \E kw \in {[page |-> run.argv.args.page, per_page |-> run.argv.args.per_page]} :
             \E result \in {CallWith(ListShortcutsParams, kw, list_shortcuts(kw, resp))} :
                EndCommand(list_command(run, result))

CmdGet ==
    /\ AtCommand("get")
    /\ \E resp \in CliHttpResponses :
          \E result \in {get_shortcut(run.argv.args, resp)} :
             EndCommand(get_command(run, result))

CmdHistory ==
    /\ AtCommand("history")
    /\ \E resp \in CliHttpResponses :
          \E result \in {get_shortcut_history(run.argv.args, resp)} :
             EndCommand(history_command(run, result))

CmdSubmit ==
    /\ AtCommand("submit")
    /\ \E resp \in CliHttpResponses :
          \E result \in {submit_shortcut(run.argv.args, resp)} :
             EndCommand(submit_command(run, result))

CmdUpdate ==
    /\ AtCommand("update")
    /\ \E resp \in CliHttpResponses :
          \E kw \in {UpdateKeywords(run.argv.args)} :
             \E result \in {CallWith(UpdateShortcutParams, kw,
                                     update_shortcut(UpdateBound(kw), resp))} :
                EndCommand(update_command(run, kw, result))

CmdUploadScreenshot ==
    /\ AtCommand("upload-screenshot")
    /\ \E resp \in CliHttpResponses :
          \E valid \in {validate_image_file(run.argv.args.path, run.argv.args.file)},
             result \in {upload_screenshot(run.argv.args, resp)} :
             EndCommand(upload_screenshot_command(run, valid, result))

CmdDeleteScreenshot ==
    /\ AtCommand("delete-screenshot")
    /\ \E resp \in CliHttpResponses :
          \E result \in {delete_screenshot(run.argv.args, resp)} :
             EndCommand(delete_screenshot_command(run, result))

CmdCheckUpdates ==
    /\ AtCommand("check-updates")
    /\ \E response \in CliVersionResponses :
          \E update_info \in {check_for_updates(response, version)} :
             \E io \in {"ok", "open_fails", "write_fails"} :
                \E written \in {update_cache_timestamp(cacheFile, now, io)} :
                   \E after \in {check_updates_command(run, update_info, written)} :
                      /\ run' = after.run
                      /\ cacheFile' = after.cache
    /\ UNCHANGED <<call, env, configFile, now, version>>

CmdCliUpdate ==
    /\ AtCommand("cli-update")
    /\ \E response \in CliVersionResponses :
          \E update_info \in {check_for_updates(response, version)} :
             \E io \in {"ok", "open_fails", "write_fails"} :
                \E written \in {update_cache_timestamp(cacheFile, now, io)} :
                   \E installed \in BOOLEAN :
                      \E after \in {cli_update_command(run, update_info, installed,
                                                       written, cacheFile)} :
                         /\ run' = after.run
                         /\ cacheFile' = after.cache
    /\ UNCHANGED <<call, env, configFile, now, version>>

\* The process is gone; the next command line may be typed.
ProcessExit ==
    /\ run.pc = "exited"
    /\ run' = NoRun
    /\ UNCHANGED <<call, env, configFile, cacheFile, now, version>>

\* Time passes between two runs: a little less than the cache duration, or
\* exactly the cache duration.
Wait ==
    /\ run.pc = "idle"
    /\ \E h \in {CACHE_DURATION_HOURS - 1, CACHE_DURATION_HOURS} :
          /\ now + h <= MaxNow
          /\ now' = now + h
    /\ UNCHANGED <<call, env, configFile, cacheFile, version, run>>

InitCli ==
    /\ call = Idle
    /\ env = PyNone
    /\ configFile \in CliConfigFiles
    /\ cacheFile \in CliCacheFiles
    /\ now = 0
    /\ version = "2.9"
    /\ run = NoRun

NextCli ==
    \/ Invoke
    \/ Cli
    \/ CmdCategories
    \/ CmdCreate
    \/ CmdList
    \/ CmdGet
    \/ CmdHistory
    \/ CmdSubmit
    \/ CmdUpdate
    \/ CmdUploadScreenshot
    \/ CmdDeleteScreenshot
    \/ CmdCheckUpdates
    \/ CmdCliUpdate
    \/ ProcessExit
    \/ Wait

SpecCli == InitCli /\ [][NextCli]_vars

------------------------------------------------------------------------------
(* The whole program *)

Init ==
    InitValidate \/ InitConfig \/ InitCache \/ InitVersion \/ InitClient \/ InitRequest
    \/ InitCli

Next ==
    NextValidate \/ NextConfig \/ NextCache \/ NextVersion \/ NextClient \/ NextRequest
    \/ NextCli

Spec == Init /\ [][Next]_vars

------------------------------------------------------------------------------
(* Claims *)

\* The arguments validate_image_file accepts, as the claim states them.
ImageAccepted(p, f) ==
    LET ext == Lower(splitext(p))
    IN  /\ f.state = "ok"
        /\ \/ ext = ".png" /\ Len(f.bytes) >= 8 /\ SubSeq(f.bytes, 1, 8) = PNG_SIGNATURE
           \/ ext \in {".jpg", ".jpeg"} /\ Len(f.bytes) >= 3
              /\ SubSeq(f.bytes, 1, 3) = JPEG_SIGNATURE

\* C1: validate_image_file succeeds iff the lower-cased extension is .png and the
\* first 8 bytes are the PNG signature, or the extension is .jpg/.jpeg and the
\* first 3 bytes are the JPEG signature.
C1_ImageIff ==
    Done("validate_image_file") =>
        (call.out = Ok <=> ImageAccepted(call.arg.path, call.arg.file))

\* C1, its case: a .png path whose file holds JPEG bytes was rejected.
C1_Witness ==
    /\ Done("validate_image_file")
    /\ Lower(splitext(call.arg.path)) = ".png"
    /\ call.arg.file.state = "ok"
    /\ Take(call.arg.file.bytes, 3) = JPEG_SIGNATURE
    /\ call.out.kind = "raise"

\* The canonical text form of a UUID: 8-4-4-4-12 hexadecimal digits.
IsCanonicalUUID(s) ==
    /\ Len(s) = 36
    /\ \A i \in 1..36 :
          IF i \in {9, 14, 19, 24} THEN Ch(s, i) = "-" ELSE IsIn(Ch(s, i), HexDigits)

\* C2: validate_uuid succeeds iff the text is the canonical form: five
\* hyphen-separated groups of 8, 4, 4, 4 and 12 hexadecimal digits, in either case.
C2_UuidIffCanonical ==
    Done("validate_uuid") => (call.out = Ok <=> IsCanonicalUUID(call.arg.uuid))

\* One of the two sharing prefixes, then an alphanumeric character.
HasSharingPrefix(s) ==
    \E prefix \in {"https://icloud.com/shortcuts/", "https://www.icloud.com/shortcuts/"} :
        /\ Len(s) > Len(prefix)
        /\ Take(s, Len(prefix)) = prefix
        /\ \E c \in {Ch(LowerLetters \o UpperLetters \o Digits, i) : i \in 1..62} :
              Ch(s, Len(prefix) + 1) = c

\* C3: validate_icloud_url succeeds iff the text begins with
\* https://icloud.com/shortcuts/ or https://www.icloud.com/shortcuts/ followed by
\* at least one alphanumeric character; what follows is ignored.
C3_UrlIffPrefix ==
    Done("validate_icloud_url") => (call.out = Ok <=> HasSharingPrefix(call.arg.url))

\* C3, its case: a URL with a query after a one-character id was accepted.
C3_Witness ==
    /\ Done("validate_icloud_url")
    /\ call.arg.url = "https://icloud.com/shortcuts/a?"
    /\ call.out = Ok

C5_FreshOrStale ==
    Done("should_check_updates") =>
        /\ cacheFile = Missing => call.out = Return(PyBool(TRUE))
        /\ \A t \in 0..MaxNow :
              cacheFile = JsonObject(TRUE, PyStr(isoformat(t))) =>
                  call.out = Return(PyBool(now - t >= 24))

\* C5, its case: a timestamp exactly 24 hours old allowed the check.
C5_Witness ==
    /\ Done("should_check_updates")
    /\ \E t \in 0..MaxNow :
          /\ cacheFile = JsonObject(TRUE, PyStr(isoformat(t)))
          /\ now - t = 24
    /\ call.out = Return(PyBool(TRUE))

\* A cache file holding a timestamp update_cache_timestamp writes.
IsValidEntry(file) ==
    \E t \in 0..MaxNow : file = JsonObject(TRUE, PyStr(isoformat(t)))

\* C6: should_check_updates fails open: for every cache file that is not a
\* valid entry (unreadable, not JSON, JSON that is not an object, last_check
\* missing, empty, not a string, unparseable or timezone-qualified) it returns
\* true and raises nothing.
C6_FailOpen ==
    Done("should_check_updates") /\ cacheFile # Missing /\ ~IsValidEntry(cacheFile)
        => call.out = Return(PyBool(TRUE))

\* The fetch gave a 2xx response whose text, without surrounding whitespace
\* and one leading v, is a version greater than the current one.
RemoteIsNewer(response, current) ==
    LET stripped == Strip(response.text, Whitespace)
        remote == IF StartsWith(stripped, "v") THEN Drop(stripped, 1) ELSE stripped
    IN  /\ response.kind = "ok"
        /\ response.status \in 200..299
        /\ ParseVersion(remote).valid
        /\ VersionGreater(remote, current)

\* C7: check_for_updates returns the remote version iff the fetch gave a 2xx
\* response whose text, with surrounding whitespace and one optional leading v
\* removed, parses as a version strictly greater than the current one;
\* otherwise it returns None; it never raises.
C7_UpdateIffNewer ==
    Done("check_for_updates") =>
        /\ call.out.kind = "return"
        /\ call.out.val.t = "dict" <=> RemoteIsNewer(call.arg.response, version)
        /\ call.out.val.t # "dict" => call.out.val = PyNone

CreateOptional == {"description", "category", "requires_ios26_ai", "updater_type", "submit"}

UpdateOptional ==
    {"name", "description", "sharing_url", "category", "requires_ios26_ai",
     "updater_type", "new_version", "changelog"}

\* The fields among these the caller gave a value (not None).
Supplied(fields) == {k \in fields : call.arg[k] # PyNone}

\* C8: the keys of the JSON payload create_shortcut and update_shortcut send
\* are exactly the fields the caller supplied (create: sharing_url and every
\* optional argument that is not None; update: every optional argument that is
\* not None), each with the value supplied; an omitted field is never sent.
C8_PayloadIsSupplied ==
    /\ Done("create_shortcut") /\ call.sent # <<>> =>
          /\ Len(call.sent) = 1
          /\ call.sent[1].how = "json"
          /\ DOMAIN call.sent[1].data = {"sharing_url"} \cup Supplied(CreateOptional)
          /\ \A k \in DOMAIN call.sent[1].data : call.sent[1].data[k] = call.arg[k]
    /\ Done("update_shortcut") /\ call.sent # <<>> =>
          /\ Len(call.sent) = 1
          /\ call.sent[1].how = "json"
          /\ DOMAIN call.sent[1].data = Supplied(UpdateOptional)
          /\ \A k \in DOMAIN call.sent[1].data : call.sent[1].data[k] = call.arg[k]

\* C8, its case: create_shortcut with sharing_url and category sent those two fields.
C8_Witness ==
    /\ Done("create_shortcut")
    /\ Supplied(CreateOptional) = {"category"}
    /\ call.sent # <<>>
    /\ DOMAIN call.sent[1].data = {"sharing_url", "category"}

UuidOps ==
    {"get_shortcut", "get_shortcut_history", "submit_shortcut", "update_shortcut",
     "upload_screenshot", "delete_screenshot"}

\* The call raised a validation error and sent nothing.
RejectedUnsent ==
    /\ call.out.kind = "raise"
    /\ call.out.exc = "ShortcutyAPIError"
    /\ call.out.why \in {"uuid", "url"}
    /\ call.sent = <<>>

\* C9: an operation called with a UUID that fails validate_uuid, and
\* create_shortcut or update_shortcut called with a sharing URL that fails
\* validate_icloud_url, raises a validation error and sends no HTTP request.
C9_InvalidInputNotSent ==
    /\ \A op \in UuidOps :
          Done(op) /\ validate_uuid(call.arg.uuid) # Ok => RejectedUnsent
    /\ \A op \in {"create_shortcut", "update_shortcut"} :
          Done(op) /\ call.arg.sharing_url # PyNone
                   /\ validate_icloud_url(call.arg.sharing_url.s) # Ok => RejectedUnsent

\* C9, its case: update_shortcut with a valid UUID and a sharing URL with an
\* empty id was rejected unsent.
C9_Witness ==
    /\ Done("update_shortcut")
    /\ validate_uuid(call.arg.uuid) = Ok
    /\ call.arg.sharing_url = PyStr("https://icloud.com/shortcuts/")
    /\ call.out = Raise("ShortcutyAPIError", "url")
    /\ call.sent = <<>>

\* C10: upload_screenshot called with a valid UUID and a file that fails
\* validate_image_file raises a validation error and sends no HTTP request.
C10_UploadValidatesImage ==
    Done("upload_screenshot")
    /\ validate_uuid(call.arg.uuid) = Ok
    /\ validate_image_file(call.arg.path, call.arg.file) # Ok
        => call.out.kind = "raise" /\ call.out.exc = "ShortcutyAPIError" /\ call.sent = <<>>

\* The error text the claim gives for a non-2xx response: the body's "message"
\* field, else its "error" field, else the generic text with the status code.
ErrorTextOf(status, body) ==
    IF body.t = "dict" /\ body.msg THEN PyStr("message")
    ELSE IF body.t = "dict" /\ body.err THEN PyStr("error")
    ELSE DefaultErrorMsg(status)

\* C11: for every non-2xx response, whatever its body (not JSON, or a JSON
\* array, string, number or null), _request raises ShortcutyAPIError with the
\* body's "message" field, else its "error" field, else the generic text; no
\* exception of another type escapes.
C11_ErrorIsShortcutyAPIError ==
    (Done("_request") /\ call.arg.resp.kind = "ok"
        /\ ~(call.arg.resp.status \in 200..299))
    => call.out = RaiseMsg("ShortcutyAPIError", "http",
                           ErrorTextOf(call.arg.resp.status, call.arg.resp.body))

\* C16: get_api_key never raises: for every explicit argument, environment
\* value and state of the files on disk (missing, unreadable, not JSON, JSON
\* whose top level is not an object) it returns a string or absent.
C16_GetApiKeyNeverRaises ==
    Done("get_api_key") =>
        /\ call.out.kind = "return"
        /\ call.out.val.t \in {"str", "none"}

\* The run did x at some point.
Did(r, x) == \E i \in DOMAIN r.events : r.events[i] = x

\* How many times the run did x.
Times(r, x) == Cardinality({i \in DOMAIN r.events : r.events[i] = x})

\* The run is past the group callback, about to run or having run a command
\* that requires the key, and no key was resolved.
KeyMissing(r) ==
    /\ r.pc \in {"command", "exited"}
    /\ r.argv.cmd \in AuthCommands
    /\ ~Truthy(r.api_key)

\* C12: a command that requires authentication, run without a resolved
\* credential, ends with an error and a non-zero exit; its body is never
\* executed, no API request is sent, and no network operation of any kind
\* (the version fetch included) is attempted in the run before the rejection.
C12_NoNetworkBeforeRejection ==
    KeyMissing(run) =>
        /\ ~Did(run, "body")
        /\ ~Did(run, "request")
        /\ ~Did(run, "fetch")
        /\ run.pc = "exited" =>
              /\ run.exit # 0
              /\ run.output # <<>>
              /\ run.output[Len(run.output)] \in {"error", "traceback"}

\* The exceptions should_check_updates raises on a cache file it cannot use.
UpdateCheckFailures ==
    {Raise("AttributeError", "cache_data.get"), Raise("TypeError", "fromisoformat"),
     Raise("TypeError", "subtract")}

\* C13: a failure in the automatic update check (reading or parsing the cache
\* in should_check_updates, the fetch, the notification, the timestamp write)
\* is absorbed: it never ends the run, the invoked command still executes and
\* no error is shown.
C13_UpdateCheckAbsorbed ==
    run.pc = "exited" => run.exc \notin UpdateCheckFailures

\* C14: within one run (the group callback and one subcommand) at most one
\* version fetch and at most one cache-timestamp write occur, and the fetch
\* precedes the write.
C14_OneFetchOneWrite ==
    /\ Times(run, "fetch") <= 1
    /\ Times(run, "write") <= 1
    /\ \A i, j \in DOMAIN run.events :
          run.events[i] = "write" /\ run.events[j] = "fetch" => j < i

\* The cache entry is Fresh: a timestamp the check can read, younger than the
\* cache duration.
Fresh(file, clock) ==
    /\ file.state = "ok"
    /\ file.body = "json"
    /\ file.top.t = "dict"
    /\ file.has
    /\ file.val.t = "str"
    /\ fromisoformat(file.val.s).valid
    /\ ~fromisoformat(file.val.s).aware
    /\ clock - fromisoformat(file.val.s).t < CACHE_DURATION_HOURS

ApiCommands == Commands \ {"check-updates", "cli-update"}

\* The inputs of the command line pass the local validators.
LocallyValid(argv) ==
    CASE argv.cmd = "create" -> validate_icloud_url(argv.args.sharing_url.s) = Ok
      [] argv.cmd \in {"get", "history", "submit", "delete-screenshot"} ->
            validate_uuid(argv.args.uuid) = Ok
      [] argv.cmd = "update" ->
            /\ validate_uuid(argv.args.uuid) = Ok
            /\ Truthy(argv.args.sharing_url) \/ Truthy(argv.args.version)
            /\ argv.args.sharing_url = PyNone
                  \/ validate_icloud_url(argv.args.sharing_url.s) = Ok
      [] argv.cmd = "upload-screenshot" ->
            /\ validate_uuid(argv.args.uuid) = Ok
            /\ validate_image_file(argv.args.path, argv.args.file) = Ok
      [] OTHER -> TRUE

\* C17: an API-backed command invoked with a resolved credential and locally
\* valid inputs invokes one API operation, which sends exactly one HTTP
\* request, and the run ends with a formatted result or a reported
\* ShortcutyAPIError; the arguments the command passes are ones the API
\* operation accepts. Stated for the request: once the command body has run,
\* exactly one request was sent and no call was refused for its keywords.
C17_OneRequestPerCommand ==
    (/\ run.pc = "exited"
     /\ run.argv.cmd \in ApiCommands
     /\ Did(run, "body")
     /\ LocallyValid(run.argv))
    => /\ Times(run, "request") = 1
       /\ run.exc # Raise("TypeError", "unexpected keyword argument")

\* The cache file holding the current time.
StampedNow == JsonObject(TRUE, PyStr(isoformat(now)))

\* C18: when the automatic check runs and check_for_updates returns, the
\* cache timestamp is written whatever the outcome was (no update, a failure
\* passed over, or an update that was shown); with --no-check-updates neither
\* the fetch nor the write happens.
C18_TimestampAlwaysWritten ==
    run.pc = "command" =>
        /\ (Did(run, "fetch") /\ (Did(run, "notify") => run.output = <<"notice">>))
              => cacheFile = StampedNow
        /\ run.argv.no_check_updates => run.events = <<>>

\* C18 as amended: in the group callback, with --no-check-updates nothing is
\* fetched or written; after a fetch update_cache_timestamp is called unless
\* show_update_notification raised; the call leaves the current time in the
\* cache when the write succeeds (otherwise the file as it was, or emptied),
\* and once the callback has left the current time in the cache the automatic
\* check is not due at any hour of the next 24.
C18_TimestampAttempted ==
    /\ [][run.pc = "group" =>
            /\ run.argv.no_check_updates => run'.events = <<>> /\ cacheFile' = cacheFile
            /\ Did(run', "fetch") =>
                  \/ Did(run', "write")
                  \/ run'.events = <<"fetch", "notify">> /\ run'.output = <<>>
            /\ Did(run', "write") => cacheFile' \in {StampedNow, cacheFile, NotJson}
            /\ ~Did(run', "write") => cacheFile' = cacheFile]_vars
    /\ [](run.pc = "command" /\ Did(run, "write") /\ cacheFile = StampedNow =>
            \A h \in 0..(CACHE_DURATION_HOURS - 1) :
                should_check_updates(cacheFile, now + h) = Return(PyBool(FALSE)))

\* C18, its case: the automatic check ran, found an update, showed it and
\* wrote the timestamp.
C18_Witness ==
    /\ run.pc = "command"
    /\ run.events = <<"fetch", "notify", "write">>
    /\ cacheFile = StampedNow

====
